---------------------------- MODULE Spec2Model ----------------------------
(* A model of workflow_scripts/generate_onnx_hub_manifest.py: the batch     *)
(* pipeline that reads the top-level README, discovers the model READMEs,   *)
(* parses their tables, normalises the column names, enriches every row     *)
(* with file hashes, tags and io_ports, and writes ONNX_HUB_MANIFEST.json.  *)
(*                                                                          *)
(* Python strings are sequences of one-character strings, so that rstrip,   *)
(* replace, lower, split, join and sorted are computed character by         *)
(* character.  A Python call that may raise returns a record                *)
(* [exc |-> <exception name or "none">, val |-> <value>].                   *)
EXTENDS Integers, Sequences, FiniteSets, TLC

VARIABLES
    pc,             \* position of the script: which statement group runs next
    error,          \* the uncaught exception that ended the run, or "none"
    root,           \* ../README.md as rendered HTML: a sequence of <table>s
    markdown_files, \* line 47-57: the discovered README paths
    doc_idx,        \* line 60: how many of markdown_files have been scanned
    all_tables,     \* line 59-66: the tables that passed the column check
    renamed,        \* line 90: the concatenated, renamed data frame
    row_idx,        \* line 143: how many rows of renamed have been handled
    output,         \* line 142: the accumulated manifest entries
    out_rows,       \* history: the row index each entry of output came from
    docs_read,      \* history: the READMEs read by the scan, in order
    log,            \* the diagnostics printed so far
    manifest,       \* the content of ../ONNX_HUB_MANIFEST.json
    cols,           \* prep_name study: the header sequence being normalised
    prev_cols,      \* prep_name study: the header sequence before the last pass
    applied,        \* prep_name study: number of normalisation passes done
    html,           \* parse_html study: the <table> being parsed (its <tr>s)
    tr_idx,         \* parse_html study: how many rows the loop has visited
    headers,        \* parse_html, line 16
    data_matrix,    \* parse_html, line 17
    parsed          \* parse_html study: the outcome of the call

vars == <<pc, error, root, markdown_files, doc_idx, all_tables, renamed, row_idx,
          output, out_rows, docs_read, log, manifest, cols, prev_cols, applied, html, tr_idx,
          headers, data_matrix, parsed>>

pipeline_vars == <<error, root, markdown_files, doc_idx, all_tables, renamed,
                   row_idx, output, out_rows, docs_read,
                   log, manifest>>
prep_vars == <<cols, prev_cols, applied>>
parse_vars == <<html, tr_idx, headers, data_matrix, parsed>>

-----------------------------------------------------------------------------
(* Bounds of the model *)

MaxTrail == 1       \* trailing whitespace characters appended to a header
MaxCols == 2        \* headers in a header sequence of the prep_name study
MaxHtmlRows == 3    \* <tr> elements of a table in the parse_html study
MaxWidth == 2       \* cells in a <tr> of the parse_html study
MaxRootRows == 3    \* data rows of the top-level README table
MaxRows == 2        \* data rows of a model README table
MaxPasses == 2      \* normalisation passes of the prep_name study

-----------------------------------------------------------------------------
(* Python str *)

\* The characters in code-point order (what sorted() and str comparison use).
Chars ==
    <<"\t", " ", "(", ")", "-", ".", "/",
      "0", "1", "2", "3", "4", "5", "6", "7", "8", "9",
      "A", "B", "C", "D", "E", "F", "G", "H", "I", "J", "K", "L", "M",
      "N", "O", "P", "Q", "R", "S", "T", "U", "V", "W", "X", "Y", "Z",
      "_",
      "a", "b", "c", "d", "e", "f", "g", "h", "i", "j", "k", "l", "m",
      "n", "o", "p", "q", "r", "s", "t", "u", "v", "w", "x", "y", "z">>

Ord(c) == CHOOSE k \in 1..Len(Chars) : Chars[k] = c

Whitespace == {" ", "\t"}
Digits == {"0", "1", "2", "3", "4", "5", "6", "7", "8", "9"}

\* The characters str.isupper() holds of, and what str.lower() makes of them
Uppers == {Chars[k] : k \in Ord("A")..Ord("Z")}
LowerOf == [c \in Uppers |-> Chars[Ord(c) - Ord("A") + Ord("a")]]

IsUpper(c) == c \in Uppers

\* str.lower() on one character
LowerChar(c) == IF IsUpper(c) THEN LowerOf[c] ELSE c

\* str.lower()
Lower(s) == [k \in 1..Len(s) |-> LowerChar(s[k])]

RECURSIVE RStrip(_)
\* str.rstrip()
RStrip(s) ==
    IF s # <<>> /\ s[Len(s)] \in Whitespace
    THEN RStrip(SubSeq(s, 1, Len(s) - 1))
    ELSE s

RECURSIVE LStrip(_)
\* str.lstrip()
LStrip(s) == IF s # <<>> /\ Head(s) \in Whitespace THEN LStrip(Tail(s)) ELSE s

\* str.strip()
Strip(s) == LStrip(RStrip(s))

StartsWith(s, p) == Len(p) <= Len(s) /\ SubSeq(s, 1, Len(p)) = p

RECURSIVE Replace(_, _, _)
\* str.replace(old, new), old non-empty: left to right, non-overlapping
Replace(s, old, new) ==
    IF s = <<>> THEN <<>>
    ELSE IF StartsWith(s, old)
         THEN new \o Replace(SubSeq(s, Len(old) + 1, Len(s)), old, new)
         ELSE <<Head(s)>> \o Replace(Tail(s), old, new)

RECURSIVE SplitFrom(_, _, _)
SplitFrom(s, sep, cur) ==
    IF s = <<>> THEN <<cur>>
    ELSE IF Head(s) = sep
         THEN <<cur>> \o SplitFrom(Tail(s), sep, <<>>)
         ELSE SplitFrom(Tail(s), sep, Append(cur, Head(s)))

\* str.split(sep) for a one-character separator
Split(s, sep) == SplitFrom(s, sep, <<>>)

RECURSIVE Join(_, _)
\* sep.join(parts)
Join(sep, parts) ==
    IF parts = <<>> THEN <<>>
    ELSE IF Len(parts) = 1 THEN parts[1]
         ELSE parts[1] \o sep \o Join(sep, Tail(parts))

RECURSIVE StrLess(_, _)
\* s < t on Python strings: lexicographic by code point
StrLess(s, t) ==
    IF t = <<>> THEN FALSE
    ELSE IF s = <<>> THEN TRUE
    ELSE IF Head(s) = Head(t) THEN StrLess(Tail(s), Tail(t))
    ELSE Ord(Head(s)) < Ord(Head(t))

\* os.path.join(a, b) on POSIX
PathJoin(a, b) ==
    IF b # <<>> /\ Head(b) = "/" THEN b
    ELSE IF a = <<>> \/ a[Len(a)] = "/" THEN a \o b
    ELSE a \o <<"/">> \o b

RECURSIVE LastSlash(_)
LastSlash(p) ==
    IF p = <<>> THEN 0
    ELSE IF p[Len(p)] = "/" THEN Len(p)
    ELSE LastSlash(SubSeq(p, 1, Len(p) - 1))

RECURSIVE RStripSlash(_)
RStripSlash(s) ==
    IF s # <<>> /\ s[Len(s)] = "/" THEN RStripSlash(SubSeq(s, 1, Len(s) - 1)) ELSE s

\* os.path.split(p)[0] on POSIX: everything before the last slash, with the
\* trailing slashes removed unless the head is all slashes
PathDir(p) ==
    LET k == LastSlash(p)
        head == SubSeq(p, 1, k)
    IN IF RStripSlash(head) = <<>> THEN head ELSE RStripSlash(head)

-----------------------------------------------------------------------------
(* The strings of the script *)

S_Download == <<"D", "o", "w", "n", "l", "o", "a", "d">>
S_DownloadData == <<"D", "o", "w", "n", "l", "o", "a", "d", " ", "(", "w", "i", "t", "h", " ", "s", "a", "m", "p", "l", "e", " ", "t", "e", "s", "t", " ", "d", "a", "t", "a", ")">>
S_Model == <<"M", "o", "d", "e", "l">>
S_OpsetVersionCap == <<"O", "p", "s", "e", "t", " ", "V", "e", "r", "s", "i", "o", "n">>
S_OpsetVersion == <<"O", "p", "s", "e", "t", " ", "v", "e", "r", "s", "i", "o", "n">>
S_ONNXVersion == <<"O", "N", "N", "X", " ", "v", "e", "r", "s", "i", "o", "n">>
S_ModelClass == <<"M", "o", "d", "e", "l", " ", "C", "l", "a", "s", "s">>
S_model == <<"m", "o", "d", "e", "l">>
S_model_path == <<"m", "o", "d", "e", "l", "_", "p", "a", "t", "h">>
S_model_with_data_path == <<"m", "o", "d", "e", "l", "_", "w", "i", "t", "h", "_", "d", "a", "t", "a", "_", "p", "a", "t", "h">>
S_opset_version == <<"o", "p", "s", "e", "t", "_", "v", "e", "r", "s", "i", "o", "n">>
S_onnx_version == <<"o", "n", "n", "x", "_", "v", "e", "r", "s", "i", "o", "n">>
S_source_file == <<"s", "o", "u", "r", "c", "e", "_", "f", "i", "l", "e">>
S_path == <<"_", "p", "a", "t", "h">>
S_sha == <<"_", "s", "h", "a">>
S_bytes == <<"_", "b", "y", "t", "e", "s">>
S_tags == <<"t", "a", "g", "s">>
S_io_ports == <<"i", "o", "_", "p", "o", "r", "t", "s">>
S_README == <<"R", "E", "A", "D", "M", "E", ".", "m", "d">>
S_DotDot == <<".", ".">>

-----------------------------------------------------------------------------
(* prep_name, lines 71-90 *)

\* normalize_name, lines 71-74, as the set of its (key, value) pairs
normalize_name ==
    { <<S_Download, S_model_path>>,
      <<S_DownloadData, S_model_with_data_path>> }

\* top_level_fields, line 76
top_level_fields == <<S_model, S_model_path, S_opset_version, S_onnx_version>>

InList(x, seq) == \E k \in 1..Len(seq) : seq[k] = x

\* prep_name, lines 79-87
prep_name(col) ==
    LET c1 == IF \E p \in normalize_name : p[1] = col
              THEN (CHOOSE p \in normalize_name : p[1] = col)[2]
              ELSE col
        c2 == RStrip(c1)
        prepped_col == Lower(Replace(c2, <<" ">>, <<"_">>))
    IN IF InList(prepped_col, top_level_fields) THEN prepped_col ELSE c2

\* df.rename(columns={col: prep_name(col) for col in df.columns.values}), line 90
RenameColumns(columns) == [k \in 1..Len(columns) |-> prep_name(columns[k])]

-----------------------------------------------------------------------------
(* bs4 elements and pandas cells *)

\* A bs4 Tag
Tag(name, attrs, contents) ==
    [kind |-> "tag", name |-> name, attrs |-> attrs, contents |-> contents,
     text |-> <<>>]

\* A bs4 NavigableString
NavStr(text) ==
    [kind |-> "str", name |-> "", attrs |-> {}, contents |-> <<>>, text |-> text]

\* A plain Python str stored in a data frame (the source_file column)
PyStr(text) ==
    [kind |-> "pystr", name |-> "", attrs |-> {}, contents |-> <<>>, text |-> text]

\* The float NaN pandas fills a missing cell with (pd.concat), and the None it
\* pads a short row with (pd.DataFrame)
NaN == [kind |-> "nan", name |-> "", attrs |-> {}, contents |-> <<>>, text |-> <<>>]
None == [kind |-> "none", name |-> "", attrs |-> {}, contents |-> <<>>, text |-> <<>>]

Ok(v) == [exc |-> "none", val |-> v]
Raise(e) == [exc |-> e, val |-> <<>>]

\* x.contents: only a Tag has the attribute
GetContents(x) == IF x.kind = "tag" THEN Ok(x.contents) ELSE Raise("AttributeError")

\* x.attrs: only a Tag has the attribute
GetAttrs(x) == IF x.kind = "tag" THEN Ok(x.attrs) ELSE Raise("AttributeError")

\* seq[0]
Item0(seq) == IF seq = <<>> THEN Raise("IndexError") ELSE Ok(seq[1])

\* The same steps on the outcome r of the expression before them: an
\* exception raised earlier is passed on
ContentsOf(r) == IF r.exc # "none" THEN r ELSE GetContents(r.val)
AttrsOf(r) == IF r.exc # "none" THEN r ELSE GetAttrs(r.val)
Item0Of(r) == IF r.exc # "none" THEN r ELSE Item0(r.val)

\* attrs[key] on the attribute dict, a set of (key, value) pairs
GetAttr(attrs, key) ==
    IF \E p \in attrs : p[1] = key
    THEN Ok((CHOOSE p \in attrs : p[1] = key)[2])
    ELSE Raise("KeyError")

RECURSIVE TextOf(_)
RECURSIVE TextOfAll(_)
\* element.text: the strings below the element, concatenated
TextOf(x) ==
    IF x.kind = "str" THEN x.text
    ELSE IF x.kind = "tag" THEN TextOfAll(x.contents)
    ELSE <<>>
TextOfAll(xs) == IF xs = <<>> THEN <<>> ELSE TextOf(Head(xs)) \o TextOfAll(Tail(xs))

\* row.find_all(names) on a <tr>: its cells with one of the tag names
FindAll(tr, names) ==
    SelectSeq(tr.contents, LAMBDA c : c.kind = "tag" /\ c.name \in names)

-----------------------------------------------------------------------------
(* parse_html, lines 15-35 *)

RECURSIVE MaxLen(_)
MaxLen(rows) ==
    IF rows = <<>> THEN 0
    ELSE LET m == MaxLen(Tail(rows))
         IN IF Len(Head(rows)) > m THEN Len(Head(rows)) ELSE m

\* pd.DataFrame(data_matrix, columns=headers), line 35: the rows are padded to
\* the widest one with None, and the number of column names must be that width
DataFrame(matrix, columns) ==
    IF Len(columns) # MaxLen(matrix)
    THEN Raise("ValueError: columns passed do not match the data")
    ELSE Ok([columns |-> columns,
             rows |-> [r \in 1..Len(matrix) |->
                         [k \in 1..Len(columns) |->
                            IF k <= Len(matrix[r]) THEN matrix[r][k] ELSE None]]])

\* A slip the code could make: line 23-24 left out, so that every row of only
\* header cells replaces the headers.
ParseRowLastHeaderWins(st, tr) ==
    LET td_list == FindAll(tr, {"td"})
        th_list == FindAll(tr, {"th"})
    IN IF td_list = <<>>
       THEN IF th_list = <<>> THEN st
            ELSE [st EXCEPT !.headers =
                     [k \in 1..Len(th_list) |-> Strip(TextOf(th_list[k]))]]
       ELSE [st EXCEPT !.data_matrix = Append(@, FindAll(tr, {"td", "th"}))]

\* One pass of the loop of lines 20-30 over the row tr
ParseRow(st, tr) ==
    LET td_list == FindAll(tr, {"td"})
        th_list == FindAll(tr, {"th"})
    IN IF td_list = <<>>
       THEN IF st.headers # <<>> THEN st
            ELSE IF th_list = <<>> THEN st
            ELSE [st EXCEPT !.headers =
                     [k \in 1..Len(th_list) |-> Strip(TextOf(th_list[k]))]]
       ELSE [st EXCEPT !.data_matrix = Append(@, FindAll(tr, {"td", "th"}))]

\* Lines 32-35
ParseReturn(st) ==
    IF st.data_matrix = <<>>
    THEN Raise("ValueError: data matrix is empty")
    ELSE DataFrame(st.data_matrix, st.headers)

RECURSIVE ParseRows(_, _)
ParseRows(st, trs) ==
    IF trs = <<>> THEN st ELSE ParseRows(ParseRow(st, Head(trs)), Tail(trs))

\* parse_html(table), table given as the sequence of its <tr> elements
parse_html(table) ==
    ParseReturn(ParseRows([headers |-> <<>>, data_matrix |-> <<>>], table))

-----------------------------------------------------------------------------
(* Data frames: [columns |-> <names>, rows |-> <rows>], a row being the     *)
(* sequence of its cells in column order                                    *)

IndexOf(x, seq) == CHOOSE k \in 1..Len(seq) : seq[k] = x

\* row[name] on a row of a frame with the given columns
GetCell(columns, row, name) ==
    IF InList(name, columns) THEN Ok(row[IndexOf(name, columns)]) ELSE Raise("KeyError")

RECURSIVE ParseAll(_)
ParseAllCons(first, rest) ==
    IF first.exc # "none" THEN first
    ELSE IF rest.exc # "none" THEN rest
    ELSE Ok(<<first.val>> \o rest.val)

\* [parse_html(table) for table in soup.find_all("table")], line 42: the
\* first table that raises ends the comprehension
ParseAll(tables) ==
    IF tables = <<>> THEN Ok(<<>>)
    ELSE ParseAllCons(parse_html(Head(tables)), ParseAll(Tail(tables)))

\* parse_readme(filename), lines 38-42, on the rendered document
parse_readme(doc) == ParseAll(doc)

-----------------------------------------------------------------------------
(* Document discovery, lines 45-57 *)

\* r.attrs["href"]
HrefOf(r) == IF AttrsOf(r).exc # "none" THEN AttrsOf(r) ELSE GetAttr(AttrsOf(r).val, "href")

\* x.contents[0]
FirstContent(x) == Item0Of(GetContents(x))

\* row["Model Class"].contents[0].contents[0].attrs['href'], line 53
ModelClassHref(cell) == HrefOf(Item0Of(ContentsOf(FirstContent(cell))))

\* Lines 51-55 given the outcome href of line 53 and the outcome shown of
\* row["Model Class"].contents[0], which line 55 prints
DiscoverLink(acc, href, shown) ==
    IF href.exc = "none"
    THEN [acc EXCEPT !.files = @ \cup {PathJoin(PathJoin(S_DotDot, href.val), S_README)},
                     !.n = @ + 1]
    ELSE IF href.exc = "AttributeError"
    THEN IF shown.exc # "none" THEN [acc EXCEPT !.exc = shown.exc]
         ELSE [acc EXCEPT !.log = Append(@, [msg |-> "has no link to implementation",
                                              row |-> acc.n + 1]),
                          !.n = @ + 1]
    ELSE [acc EXCEPT !.exc = href.exc]

\* The body of the loop of lines 49-55 for one row of a top-level table;
\* acc = [exc, files, log, n], n counting the rows seen (for the log only)
DiscoverRow(acc, columns, row) ==
    IF acc.exc # "none" THEN acc
    ELSE IF ~InList(S_ModelClass, columns) THEN [acc EXCEPT !.n = @ + 1]
    ELSE DiscoverLink(acc, ModelClassHref(row[IndexOf(S_ModelClass, columns)]),
                      FirstContent(row[IndexOf(S_ModelClass, columns)]))

RECURSIVE DiscoverRows(_, _, _)
DiscoverRows(acc, columns, rows) ==
    IF rows = <<>> THEN acc
    ELSE DiscoverRows(DiscoverRow(acc, columns, Head(rows)), columns, Tail(rows))

RECURSIVE DiscoverTables(_, _)
\* Lines 48-55 over the parsed top-level tables
DiscoverTables(acc, tables) ==
    IF tables = <<>> THEN acc
    ELSE DiscoverTables(DiscoverRows(acc, Head(tables).columns, Head(tables).rows),
                        Tail(tables))

RECURSIVE SortedList(_)
\* sorted(list(S)), line 57
SortedList(S) ==
    IF S = {} THEN <<>>
    ELSE LET least == CHOOSE x \in S : \A y \in S \ {x} : StrLess(x, y)
         IN <<least>> \o SortedList(S \ {least})

DiscoverParsed(tables) ==
    IF tables.exc # "none"
    THEN [exc |-> tables.exc, files |-> {}, log |-> <<>>, n |-> 0]
    ELSE DiscoverTables([exc |-> "none", files |-> {}, log |-> <<>>, n |-> 0], tables.val)

DiscoverySorted(acc) == [exc |-> acc.exc, files |-> SortedList(acc.files), log |-> acc.log]

\* Lines 45-57: [exc, files (sorted), log]
Discovery(doc) == DiscoverySorted(DiscoverParsed(parse_readme(doc)))

-----------------------------------------------------------------------------
(* Scanning the model READMEs, lines 59-68, and the concatenation, line 70 *)

\* The columns line 64 requires
RequiredColumns == <<S_Model, S_Download, S_OpsetVersion, S_ONNXVersion>>

\* parsed.rename(columns={"Opset Version": "Opset version"}), line 63
RenameOpset(columns) ==
    [k \in 1..Len(columns) |->
        IF columns[k] = S_OpsetVersionCap THEN S_OpsetVersion ELSE columns[k]]

\* all(col in parsed.columns.values for col in [...]), line 64
HasRequiredColumns(columns) ==
    \A k \in 1..Len(RequiredColumns) : InList(RequiredColumns[k], columns)

\* A slip the code could make: line 64 tests any() where it means all().
KeepTableAny(columns) ==
    \E k \in 1..Len(RequiredColumns) : InList(RequiredColumns[k], columns)

\* The test of line 64 on the columns as renamed by line 63
KeepTable(columns) == HasRequiredColumns(columns)

\* parsed["source_file"] = markdown_file, line 65
WithSourceFile(frame, markdown_file) ==
    [columns |-> Append(frame.columns, S_source_file),
     rows |-> [r \in 1..Len(frame.rows) |-> Append(frame.rows[r], PyStr(markdown_file))]]

\* Lines 64-68 for one parsed table, its columns renamed by line 63
ScanTable(acc, frame, markdown_file) ==
    IF KeepTable(frame.columns)
    THEN [acc EXCEPT !.tables = Append(@, WithSourceFile(frame, markdown_file))]
    ELSE [acc EXCEPT !.log = Append(@, [msg |-> "Unrecognized table columns",
                                        file |-> markdown_file])]

RECURSIVE ScanTables(_, _, _)
\* Lines 62-68 over the parsed tables of one README; acc = [tables, log]
ScanTables(acc, frames, markdown_file) ==
    IF frames = <<>> THEN acc
    ELSE ScanTables(ScanTable(acc, [Head(frames) EXCEPT !.columns = RenameOpset(@)],
                              markdown_file),
                    Tail(frames), markdown_file)

RECURSIVE UnionColumns(_, _)
\* The columns of pd.concat(tables, axis=0): the union, in order of appearance
UnionColumns(seen, tables) ==
    IF tables = <<>> THEN seen
    ELSE UnionColumns(seen \o SelectSeq(Head(tables).columns, LAMBDA c : ~InList(c, seen)),
                      Tail(tables))

\* The rows of table t laid out on the columns of the concatenation: a
\* column the table lacks is filled with NaN
Reindexed(columns, t) ==
    [r \in 1..Len(t.rows) |->
        [k \in 1..Len(columns) |->
            IF InList(columns[k], t.columns)
            THEN t.rows[r][IndexOf(columns[k], t.columns)]
            ELSE NaN]]

RECURSIVE ConcatRows(_, _)
ConcatRows(columns, tables) ==
    IF tables = <<>> THEN <<>>
    ELSE Reindexed(columns, Head(tables)) \o ConcatRows(columns, Tail(tables))

ConcatOn(columns, tables) == Ok([columns |-> columns, rows |-> ConcatRows(columns, tables)])

\* pd.concat(all_tables, axis=0), line 70
Concat(tables) ==
    IF tables = <<>> THEN Raise("ValueError: No objects to concatenate")
    ELSE ConcatOn(UnionColumns(<<>>, tables), tables)

\* df.rename(columns={...}), line 90
Renamed(frame) == [frame EXCEPT !.columns = RenameColumns(@)]

-----------------------------------------------------------------------------
(* The files below the scan root, as the run finds them *)

F_model == <<"m", ".", "o", "n", "n", "x">>      \* a model, payload present
F_pointer == <<"l", ".", "o", "n", "n", "x">>    \* a git-lfs pointer file
F_gone == <<"g", ".", "o", "n", "n", "x">>       \* referenced, not on disk
F_data == <<"d", ".", "g", "z">>                 \* sample test data
F_nodata == <<"e", ".", "g", "z">>               \* referenced, not on disk

Last(seq) == seq[Len(seq)]

Basename(path) == Last(Split(path, "/"))

\* Whether open(path, "rb"), line 99, succeeds
FileExists(path) == Basename(path) \in {F_model, F_pointer, F_data}

\* f.read(), line 100: the bytes of the file
FileBytes(path) ==
    IF Basename(path) = F_model THEN <<8, 1, 18>>
    ELSE IF Basename(path) = F_pointer THEN <<118>>
    ELSE <<31, 139>>

\* hashlib.sha256(bytes).hexdigest(), line 101: a function of the bytes alone
Sha256(bytes) == <<"sha256", bytes>>

\* ort.InferenceSession(model_path) and its ports, lines 125-131: raises
\* NotImplemented on a git-lfs pointer file
InferenceSession(path) ==
    IF Basename(path) = F_pointer THEN Raise("NotImplemented")
    ELSE Ok([inputs |-> <<[name |-> "data", shape |-> <<1, 3>>, type |-> "tensor(float)"]>>,
             outputs |-> <<[name |-> "prob", shape |-> <<1, 2>>, type |-> "tensor(float)"]>>])

-----------------------------------------------------------------------------
(* Enrichment, lines 94-176 *)

\* split(row["source_file"])[0], lines 95 and 110
SourceDir(columns, row) == PathDir(row[IndexOf(S_source_file, columns)].text)

\* "/".join(join(source_dir, model_file).split(os.sep)[1:]), line 98
RelPath(source_dir, model_file) ==
    Join(<<"/">>, Tail(Split(PathJoin(source_dir, model_file), "/")))

\* A slip the code could make: a file that cannot be opened yields empty
\* bytes instead of raising.
ReadInfoLenient(field, rel_path, path) ==
    IF ~FileExists(path)
    THEN Ok((field :> rel_path)
            @@ ((Replace(field, S_path, <<>>) \o S_sha) :> Sha256(<<>>))
            @@ ((Replace(field, S_path, <<>>) \o S_bytes) :> 0))
    ELSE Ok((field :> rel_path)
            @@ ((Replace(field, S_path, <<>>) \o S_sha) :> Sha256(FileBytes(path)))
            @@ ((Replace(field, S_path, <<>>) \o S_bytes) :> Len(FileBytes(path))))

\* Lines 99-106: open and read the file at path, and build the dict
ReadInfo(field, rel_path, path) ==
    IF ~FileExists(path) THEN Raise("FileNotFoundError")
    ELSE Ok((field :> rel_path)
            @@ ((Replace(field, S_path, <<>>) \o S_sha) :> Sha256(FileBytes(path)))
            @@ ((Replace(field, S_path, <<>>) \o S_bytes) :> Len(FileBytes(path))))

\* Lines 97-106 given the outcome model_file of line 96
FileInfoOf(source_dir, field, model_file) ==
    IF model_file.exc # "none" THEN model_file
    ELSE ReadInfo(field, RelPath(source_dir, model_file.val),
                  PathJoin(S_DotDot, RelPath(source_dir, model_file.val)))

\* get_file_info(row, field), lines 94-106, on a row of a frame with the
\* given columns
get_file_info(columns, row, field) ==
    FileInfoOf(SourceDir(columns, row), field,
               HrefOf(Item0Of(ContentsOf(GetCell(columns, row, field)))))

UnderscoresToSpaces(tags) ==
    [k \in 1..Len(tags) |-> Replace(tags[k], <<"_">>, <<" ">>)]

\* get_model_tags(row), lines 109-112
get_model_tags(columns, row) ==
    UnderscoresToSpaces(Tail(Split(SourceDir(columns, row), "/")))

\* Lines 126-139 given the outcome of line 125: Ok(ports), Ok(None) after
\* NotImplemented, or the exception that is not caught
PortsOf(session) ==
    IF session.exc = "none" THEN session
    ELSE IF session.exc = "NotImplemented" THEN Ok(None)
    ELSE session

\* get_model_io_ports(source_file), lines 115-139
get_model_io_ports(source_file) == PortsOf(InferenceSession(PathJoin(S_DotDot, source_file)))

IsNone(x) == x = None

\* A slip the code could make: the test of line 150 left out.
AttachPortsAlways(metadata, io_ports) == (S_io_ports :> io_ports) @@ metadata

\* Lines 150-151
AttachPorts(metadata, io_ports) ==
    IF ~IsNone(io_ports) THEN (S_io_ports :> io_ports) @@ metadata ELSE metadata

RECURSIVE DigitsValue(_, _)
DigitsValue(s, acc) ==
    IF s = <<>> THEN acc
    ELSE DigitsValue(Tail(s), 10 * acc + (Ord(Head(s)) - Ord("0")))

AllDigits(s) == s # <<>> /\ \A k \in 1..Len(s) : s[k] \in Digits

\* int(s) for a stripped str s: an optional sign and decimal digits
ParseIntStr(s) ==
    IF s # <<>> /\ Head(s) = "-"
    THEN IF AllDigits(Tail(s)) THEN Ok(0 - DigitsValue(Tail(s), 0)) ELSE Raise("ValueError")
    ELSE IF AllDigits(s) THEN Ok(DigitsValue(s, 0)) ELSE Raise("ValueError")

\* int(x), lines 160 and 171, for x a bs4 element: a NavigableString is a str
ParseInt(x) ==
    IF x.kind \notin {"str", "pystr"} THEN Raise("TypeError")
    ELSE ParseIntStr(Strip(x.text))

\* row[name].contents[0]
CellItem0(columns, row, name) == Item0Of(ContentsOf(GetCell(columns, row, name)))

\* int(r) on the outcome r of the expression before it
ParseIntOf(r) == IF r.exc # "none" THEN r ELSE ParseInt(r.val)

Aborted(exc) == [exc |-> exc, emit |-> <<>>, log |-> <<>>]

\* A slip the code could make: the ValueError of line 160 is not caught.
EmitUncaught(opset, model, onnx, source_file, model_path, metadata, lg, idx) ==
    IF opset.exc # "none" THEN Aborted(opset.exc)
    ELSE IF model.exc # "none" THEN Aborted(model.exc)
    ELSE IF Len(model.val) > 0
    THEN IF onnx.exc # "none" THEN Aborted(onnx.exc)
         ELSE [exc |-> "none",
               emit |-> <<[model |-> model.val[1], model_path |-> model_path,
                           onnx_version |-> onnx.val, opset_version |-> opset.val,
                           metadata |-> metadata]>>,
               log |-> lg]
    ELSE [exc |-> "none", emit |-> <<>>,
          log |-> Append(lg, [msg |-> "Missing model", file |-> source_file, row |-> idx])]

\* Lines 159-176 given the outcomes of int(row["opset_version"].contents[0]),
\* of row["model"].contents and of row["onnx_version"].contents[0].
\* [exc, emit, log]: emit holds the entries appended to output (none or one)
Emit(opset, model, onnx, source_file, model_path, metadata, lg, idx) ==
    IF opset.exc = "ValueError"
    THEN [exc |-> "none", emit |-> <<>>,
          log |-> Append(lg, [msg |-> "malformed opset", file |-> source_file, row |-> idx])]
    ELSE IF opset.exc # "none" THEN Aborted(opset.exc)
    ELSE IF model.exc # "none" THEN Aborted(model.exc)
    ELSE IF Len(model.val) > 0
    THEN IF onnx.exc # "none" THEN Aborted(onnx.exc)
         ELSE [exc |-> "none",
               emit |-> <<[model |-> model.val[1], model_path |-> model_path,
                           onnx_version |-> onnx.val, opset_version |-> opset.val,
                           metadata |-> metadata]>>,
               log |-> lg]
    ELSE [exc |-> "none", emit |-> <<>>,
          log |-> Append(lg, [msg |-> "Missing model", file |-> source_file, row |-> idx])]

\* Lines 159-176
AfterOpset(columns, row, model_path, metadata, lg, idx) ==
    Emit(ParseIntOf(CellItem0(columns, row, S_opset_version)),
         ContentsOf(GetCell(columns, row, S_model)),
         CellItem0(columns, row, S_onnx_version),
         row[IndexOf(S_source_file, columns)].text, model_path, metadata, lg, idx)

\* Lines 153-176 given the outcome data_info of
\* get_file_info(row, "model_with_data_path"): only AttributeError is caught
WithDataInfo(columns, row, idx, model_path, metadata, data_info) ==
    IF data_info.exc = "none"
    THEN AfterOpset(columns, row, model_path, data_info.val @@ metadata, <<>>, idx)
    ELSE IF data_info.exc = "AttributeError"
    THEN AfterOpset(columns, row, model_path, metadata,
                    <<[msg |-> "no model_with_data",
                       file |-> row[IndexOf(S_source_file, columns)].text,
                       row |-> idx]>>, idx)
    ELSE Aborted(data_info.exc)

\* Lines 150-176 given the outcome io_ports of get_model_io_ports(model_path)
WithPorts(columns, row, idx, model_path, metadata, io_ports) ==
    IF io_ports.exc # "none" THEN Aborted(io_ports.exc)
    ELSE WithDataInfo(columns, row, idx, model_path, AttachPorts(metadata, io_ports.val),
                      get_file_info(columns, row, S_model_with_data_path))

\* model_info.pop("model_path"), line 146: the dict without the key
Popped(dict, key) == [k \in DOMAIN dict \ {key} |-> dict[k]]

\* Lines 146-176 given the outcome model_info of get_file_info(row, "model_path")
WithModelInfo(columns, row, idx, model_info) ==
    IF model_info.exc # "none" THEN Aborted(model_info.exc)
    ELSE WithPorts(columns, row, idx, model_info.val[S_model_path],
                   (S_tags :> get_model_tags(columns, row))
                       @@ Popped(model_info.val, S_model_path),
                   get_model_io_ports(model_info.val[S_model_path]))

\* The body of the loop of lines 143-176 for the row with index idx (the
\* index is kept in the diagnostics to tell the rows apart)
LoopBody(columns, row, idx) ==
    WithModelInfo(columns, row, idx, get_file_info(columns, row, S_model_path))

\* A slip the code could make: the entry is put in front of the list.
Prepended(list, new) == new \o list

\* output.append(...), line 166
Appended(list, new) == list \o new

\* json.dump(output, f, indent=4), line 180: a NavigableString is a str; any
\* other element is not serialisable
Serialisable(entries) ==
    \A k \in 1..Len(entries) :
        entries[k].model.kind = "str" /\ entries[k].onnx_version.kind = "str"

-----------------------------------------------------------------------------
(* The documents the run reads *)

TH(text) == Tag("th", {}, <<NavStr(text)>>)
TD(contents) == Tag("td", {}, contents)
TR(cells) == Tag("tr", {}, cells)
Link(href) == Tag("a", {<<"href", href>>}, <<NavStr(<<"x">>)>>)
Bold(contents) == Tag("b", {}, contents)

\* A markdown table as rendered: a row of header cells, then the data rows
Table(names, rows) ==
    <<TR([k \in 1..Len(names) |-> TH(names[k])])>>
    \o [r \in 1..Len(rows) |-> TR(rows[r])]

SeqsUpTo(S, n) == UNION {[1..k -> S] : k \in 1..n}

H_foo == <<"m", "o", "d", "e", "l", "s", "/", "f", "o", "o">>
H_ab == <<"a", "_", "b">>
Hrefs == {H_foo, H_ab}

\* A "Model Class" cell with a link, <td><b><a href=...>x</a></b></td>
ClassLink(href) == TD(<<Bold(<<Link(href)>>)>>)

\* The "Model Class" cells: linked, bold text, plain text, a link element
\* without href, and an empty cell
ModelClassCells ==
    {ClassLink(h) : h \in Hrefs}
    \cup { TD(<<Bold(<<NavStr(<<"x">>)>>)>>),
           TD(<<NavStr(<<"x">>)>>),
           TD(<<Bold(<<Tag("a", {}, <<NavStr(<<"x">>)>>)>>)>>),
           TD(<<>>) }

S_Other == <<"O", "t", "h", "e", "r">>

\* The top-level READMEs of the discovery study: one table of one column
RootDocsAll ==
    { <<Table(<<name>>, [r \in 1..Len(cells) |-> <<cells[r]>>])>> :
        name \in {S_ModelClass, S_Other},
        cells \in SeqsUpTo(ModelClassCells, MaxRootRows) }

RootOf(cells) == <<Table(<<S_ModelClass>>, [r \in 1..Len(cells) |-> <<cells[r]>>])>>

\* The top-level READMEs of the whole run
RootDocs ==
    { RootOf(<<ClassLink(H_foo)>>),
      RootOf(<<ClassLink(H_foo), ClassLink(H_ab)>>),
      RootOf(<<ClassLink(H_foo), TD(<<NavStr(<<"x">>)>>), ClassLink(H_ab)>>) }

Std4 == <<S_Model, S_Download, S_OpsetVersion, S_ONNXVersion>>
Cap4 == <<S_Model, S_Download, S_OpsetVersionCap, S_ONNXVersion>>
Std5 == <<S_Model, S_Download, S_DownloadData, S_OpsetVersion, S_ONNXVersion>>
Bad3 == <<S_Model, S_Download, S_ONNXVersion>>

ModelCells == {TD(<<NavStr(<<"M">>)>>), TD(<<>>)}
DownloadCells == {TD(<<Link(f)>>) : f \in {F_model, F_pointer, F_gone}}
OpsetCells == {TD(<<NavStr(<<"7">>)>>), TD(<<NavStr(<<"x">>)>>)}
OnnxCell == TD(<<NavStr(<<"1", ".", "6">>)>>)
DataCells == {TD(<<Link(F_data)>>), TD(<<Link(F_nodata)>>), TD(<<NavStr(<<"-">>)>>)}

Rows4 == {<<m, d, o, OnnxCell>> : m \in ModelCells, d \in DownloadCells, o \in OpsetCells}
Rows5 ==
    {<<TD(<<NavStr(<<"M">>)>>), TD(<<Link(f)>>), dd, o, OnnxCell>> :
        f \in {F_model, F_pointer}, dd \in DataCells, o \in OpsetCells}

GoodRow4 == <<TD(<<NavStr(<<"M">>)>>), TD(<<Link(F_model)>>), TD(<<NavStr(<<"7">>)>>), OnnxCell>>
GoodRow5 ==
    <<TD(<<NavStr(<<"M">>)>>), TD(<<Link(F_model)>>), TD(<<Link(F_data)>>),
      TD(<<NavStr(<<"7">>)>>), OnnxCell>>
BadTable == Table(Bad3, <<<<TD(<<NavStr(<<"M">>)>>), TD(<<Link(F_model)>>), OnnxCell>>>>)

\* What the README below H_foo may hold
WideDocs ==
    {<<Table(Std4, rows)>> : rows \in SeqsUpTo(Rows4, MaxRows)}
    \cup {<<Table(Std5, rows)>> : rows \in SeqsUpTo(Rows5, MaxRows)}
    \cup {<<Table(Cap4, <<row>>)>> : row \in Rows4}
    \cup {<<BadTable>>, <<BadTable, Table(Std4, <<GoodRow4>>)>>, <<>>}

\* What every other README may hold
NarrowDocs ==
    {<<Table(Std4, <<GoodRow4>>)>>, <<Table(Std5, <<GoodRow5>>)>>, <<BadTable>>}

DocsAt(markdown_file) ==
    IF markdown_file = PathJoin(PathJoin(S_DotDot, H_foo), S_README)
    THEN WideDocs ELSE NarrowDocs

PriorManifest == [state |-> "prior", entries |-> <<>>]

-----------------------------------------------------------------------------
(* The run *)

NoFrame == [columns |-> <<>>, rows |-> <<>>]
NoParse == [exc |-> "pending", val |-> <<>>]

PrepIdle == cols = <<>> /\ prev_cols = <<>> /\ applied = 0
ParseIdle ==
    html = <<>> /\ tr_idx = 0 /\ headers = <<>> /\ data_matrix = <<>> /\ parsed = NoParse
PipelineIdle ==
    /\ error = "none" /\ root = <<>> /\ markdown_files = <<>> /\ doc_idx = 0
    /\ all_tables = <<>> /\ renamed = NoFrame /\ row_idx = 0
    /\ output = <<>> /\ out_rows = <<>> /\ docs_read = <<>> /\ log = <<>>
    /\ manifest = PriorManifest

Abort(exc) ==
    /\ pc' = "aborted"
    /\ error' = exc

DiscoverDone(d) ==
    IF d.exc # "none"
    THEN /\ Abort(d.exc)
         /\ UNCHANGED <<markdown_files, log>>
    ELSE /\ markdown_files' = d.files
         /\ log' = log \o d.log
         /\ pc' = "scan"
         /\ UNCHANGED error

\* Lines 45-57
Discover ==
    /\ pc = "discover"
    /\ DiscoverDone(Discovery(root))
    /\ UNCHANGED <<root, doc_idx, all_tables, renamed, row_idx, output, out_rows,
                   docs_read, manifest, prep_vars, parse_vars>>

ScanDone(acc) ==
    /\ all_tables' = acc.tables
    /\ log' = acc.log
    /\ doc_idx' = doc_idx + 1
    /\ UNCHANGED <<pc, error>>

ScanParsed(frames, markdown_file) ==
    IF frames.exc # "none"
    THEN /\ Abort(frames.exc)
         /\ UNCHANGED <<doc_idx, all_tables, log>>
    ELSE ScanDone(ScanTables([tables |-> all_tables, log |-> log], frames.val,
                             markdown_file))

\* Lines 60-68 for the next README, which holds the tables doc
ScanDocument ==
    /\ pc = "scan"
    /\ doc_idx < Len(markdown_files)
    /\ \E doc \in DocsAt(markdown_files[doc_idx + 1]) :
         /\ docs_read' = Append(docs_read, doc)
         /\ ScanParsed(parse_readme(doc), markdown_files[doc_idx + 1])
    /\ UNCHANGED <<root, markdown_files, renamed, row_idx, output, out_rows,
                   manifest, prep_vars, parse_vars>>

\* Line 61 when the README of a linked directory cannot be opened
ScanMissing ==
    /\ pc = "scan"
    /\ doc_idx < Len(markdown_files)
    /\ Abort("FileNotFoundError")
    /\ UNCHANGED <<root, markdown_files, doc_idx, all_tables, renamed, row_idx,
                   output, out_rows, docs_read, log, manifest, prep_vars, parse_vars>>

ConcatDone(df) ==
    IF df.exc # "none"
    THEN /\ Abort(df.exc)
         /\ UNCHANGED renamed
    ELSE /\ renamed' = Renamed(df.val)
         /\ pc' = "enrich"
         /\ UNCHANGED error

\* Lines 70-91
ConcatRename ==
    /\ pc = "scan"
    /\ doc_idx = Len(markdown_files)
    /\ ConcatDone(Concat(all_tables))
    /\ UNCHANGED <<root, markdown_files, doc_idx, all_tables, row_idx, output,
                   out_rows, docs_read, log, manifest, prep_vars, parse_vars>>

RowDone(r) ==
    IF r.exc # "none"
    THEN /\ Abort(r.exc)
         /\ UNCHANGED <<row_idx, output, out_rows, log>>
    ELSE /\ output' = Appended(output, r.emit)
         /\ out_rows' = Appended(out_rows, [k \in 1..Len(r.emit) |-> row_idx + 1])
         /\ log' = log \o r.log
         /\ row_idx' = row_idx + 1
         /\ UNCHANGED <<pc, error>>

\* Lines 143-176 for the next row of renamed
ProcessRow ==
    /\ pc = "enrich"
    /\ row_idx < Len(renamed.rows)
    /\ RowDone(LoopBody(renamed.columns, renamed.rows[row_idx + 1], row_idx + 1))
    /\ UNCHANGED <<root, markdown_files, doc_idx, all_tables, renamed, docs_read,
                   manifest, prep_vars, parse_vars>>

\* Lines 178-180: the file is opened with "w+" (truncated), the count is
\* printed and the entries are dumped
WriteManifest ==
    /\ pc = "enrich"
    /\ row_idx = Len(renamed.rows)
    /\ log' = Append(log, [msg |-> "Found models", count |-> Len(output)])
    /\ IF Serialisable(output)
       THEN /\ manifest' = [state |-> "written", entries |-> output]
            /\ pc' = "done"
            /\ UNCHANGED error
       ELSE /\ manifest' = [state |-> "truncated", entries |-> <<>>]
            /\ Abort("TypeError")
    /\ UNCHANGED <<root, markdown_files, doc_idx, all_tables, renamed, row_idx,
                   output, out_rows, docs_read, prep_vars, parse_vars>>

Init ==
    /\ pc = "discover"
    /\ root \in RootDocs
    /\ error = "none" /\ markdown_files = <<>> /\ doc_idx = 0
    /\ all_tables = <<>> /\ renamed = NoFrame /\ row_idx = 0
    /\ output = <<>> /\ out_rows = <<>> /\ docs_read = <<>> /\ log = <<>>
    /\ manifest = PriorManifest
    /\ PrepIdle
    /\ ParseIdle

Next == Discover \/ ScanDocument \/ ScanMissing \/ ConcatRename \/ ProcessRow \/ WriteManifest

Spec == Init /\ [][Next]_vars

-----------------------------------------------------------------------------
(* The discovery alone, on every top-level README of the bounds *)

InitDiscover ==
    /\ pc = "discover"
    /\ root \in RootDocsAll
    /\ error = "none" /\ markdown_files = <<>> /\ doc_idx = 0
    /\ all_tables = <<>> /\ renamed = NoFrame /\ row_idx = 0
    /\ output = <<>> /\ out_rows = <<>> /\ docs_read = <<>> /\ log = <<>>
    /\ manifest = PriorManifest
    /\ PrepIdle
    /\ ParseIdle

NextDiscover == Discover

SpecDiscover == InitDiscover /\ [][NextDiscover]_vars

-----------------------------------------------------------------------------
(* prep_name on header sequences: line 90 applied again and again *)

S_ModelPathSp == <<"M", "o", "d", "e", "l", " ", "P", "a", "t", "h">>
S_MODEL == <<"M", "O", "D", "E", "L">>
S_OnnxVersionCap == <<"O", "n", "n", "x", " ", "V", "e", "r", "s", "i", "o", "n">>
S_Notes == <<"N", "o", "t", "e", "s">>

HeaderBases ==
    { S_Download, S_DownloadData, S_Model, S_model, S_MODEL, S_ModelPathSp,
      S_model_path, S_model_with_data_path, S_OpsetVersion, S_OpsetVersionCap,
      S_opset_version, S_ONNXVersion, S_OnnxVersionCap, S_Notes, S_source_file }

Trails == {<<>>} \cup SeqsUpTo(Whitespace, MaxTrail)

Headers == {base \o trail : base \in HeaderBases, trail \in Trails}

InitPrep ==
    /\ pc = "prep"
    /\ cols \in SeqsUpTo(Headers, MaxCols)
    /\ prev_cols = cols
    /\ applied = 0
    /\ PipelineIdle
    /\ ParseIdle

\* renamed = df.rename(columns={col: prep_name(col) ...}), line 90
Normalise ==
    /\ pc = "prep"
    /\ applied < MaxPasses
    /\ prev_cols' = cols
    /\ cols' = RenameColumns(cols)
    /\ applied' = applied + 1
    /\ UNCHANGED <<pc, pipeline_vars, parse_vars>>

NextPrep == Normalise

SpecPrep == InitPrep /\ [][NextPrep]_vars

-----------------------------------------------------------------------------
(* parse_html row by row, on every table of the bounds *)

Digit(k) == Chars[Ord("0") + k]

\* A row of header cells h1 h2 ... (family "h") or of header cells whose text
\* is padded with blanks (family "g")
ThCells(fam, w) ==
    [k \in 1..w |-> IF fam = "h" THEN TH(<<"h", Digit(k)>>)
                                 ELSE TH(<<" ", "g", Digit(k), " ">>)]
TdCells(w) == [k \in 1..w |-> TD(<<NavStr(<<"v", Digit(k)>>)>>)]

HtmlRowKinds ==
    {TR(ThCells(fam, w)) : fam \in {"h", "g"}, w \in 1..MaxWidth}
    \cup {TR(TdCells(w)) : w \in 1..MaxWidth}
    \cup {TR(<<TH(<<"h", "1">>), TD(<<NavStr(<<"v", "2">>)>>)>>), TR(<<>>)}

HtmlTables == {<<>>} \cup SeqsUpTo(HtmlRowKinds, MaxHtmlRows)

InitParse ==
    /\ pc = "parse"
    /\ html \in HtmlTables
    /\ tr_idx = 0 /\ headers = <<>> /\ data_matrix = <<>> /\ parsed = NoParse
    /\ PipelineIdle
    /\ PrepIdle

ParseStepDone(st) ==
    /\ headers' = st.headers
    /\ data_matrix' = st.data_matrix

\* One pass of the loop of lines 20-30
ParseLoop ==
    /\ pc = "parse"
    /\ tr_idx < Len(html)
    /\ ParseStepDone(ParseRow([headers |-> headers, data_matrix |-> data_matrix],
                              html[tr_idx + 1]))
    /\ tr_idx' = tr_idx + 1
    /\ UNCHANGED <<pc, html, parsed, pipeline_vars, prep_vars>>

\* Lines 32-35
ParseEnd ==
    /\ pc = "parse"
    /\ tr_idx = Len(html)
    /\ parsed' = ParseReturn([headers |-> headers, data_matrix |-> data_matrix])
    /\ pc' = "parsed"
    /\ UNCHANGED <<html, tr_idx, headers, data_matrix, pipeline_vars, prep_vars>>

NextParse == ParseLoop \/ ParseEnd

SpecParse == InitParse /\ [][NextParse]_vars

-----------------------------------------------------------------------------
(* What the properties speak of *)

RowRange == 1..Len(renamed.rows)
RowCell(k, name) == GetCell(renamed.columns, renamed.rows[k], name)
RowFile(k) == renamed.rows[k][IndexOf(S_source_file, renamed.columns)].text

\* The target of the Download link of row k
ModelHref(k) == RowCell(k, S_model_path).val.contents[1].attrs

LinkTarget(attrs) == (CHOOSE p \in attrs : p[1] = "href")[2]

\* The file the Download link of row k names is not on disk
ModelFileMissing(k) == Basename(LinkTarget(ModelHref(k))) \notin {F_model, F_pointer, F_data}

\* The file the Download link of row k names is a git-lfs pointer, which the
\* inference engine refuses with NotImplemented
PointerModel(k) == Basename(LinkTarget(ModelHref(k))) = F_pointer

\* The opset cell of row k holds text that is not a number
BadOpset(k) ==
    \E i \in 1..Len(TextOf(RowCell(k, S_opset_version).val)) :
        TextOf(RowCell(k, S_opset_version).val)[i] \notin Digits

\* The model cell of row k has no content
EmptyModel(k) == RowCell(k, S_model).val.contents = <<>>

\* Row k has no link to sample test data: the column is in no table, or not
\* in the table of the row, or the cell holds no link
DataAbsent(k) ==
    \/ ~InList(S_model_with_data_path, renamed.columns)
    \/ RowCell(k, S_model_with_data_path).val.kind = "nan"
    \/ /\ RowCell(k, S_model_with_data_path).val.contents # <<>>
       /\ RowCell(k, S_model_with_data_path).val.contents[1].kind = "str"

Emitted(k) == \E j \in 1..Len(out_rows) : out_rows[j] = k

Logged(msg, k) ==
    \E i \in 1..Len(log) : log[i] = [msg |-> msg, file |-> RowFile(k), row |-> k]

RECURSIVE ReadTablesFrom(_)
ReadTablesFrom(d) ==
    IF d > Len(docs_read) THEN <<>>
    ELSE [t \in 1..Len(docs_read[d]) |->
             [file |-> markdown_files[d], frame |-> parse_html(docs_read[d][t]).val]]
         \o ReadTablesFrom(d + 1)

\* The tables the scan has read, in reading order, each with its README
ReadTables == ReadTablesFrom(1)

MissesField(normalised) ==
    \E f \in 1..Len(top_level_fields) : ~InList(top_level_fields[f], normalised)

\* The renamed and normalised columns lack one of the four top-level fields
LacksField(columns) ==
    MissesField([c \in 1..Len(columns) |->
                    prep_name(IF columns[c] = S_OpsetVersionCap THEN S_OpsetVersion
                              ELSE columns[c])])

SomeTableLacksField ==
    \E tb \in {ReadTables[t] : t \in 1..Len(ReadTables)} : LacksField(tb.frame.columns)

ConcatError == "ValueError: No objects to concatenate"

-----------------------------------------------------------------------------
(* Properties *)

\* C1: when the file a record's model_path names cannot be opened, the loop
\* step at that record ends the run with the uncaught error, whatever has been
\* accumulated; the run never gets past the record, never completes, and the
\* manifest file stays as it was before the run.
C1_ReadFailureAborts ==
    /\ [](\A k \in RowRange :
            ModelFileMissing(k) =>
                row_idx < k /\ pc # "done" /\ manifest = PriorManifest)
    /\ [][(pc = "enrich" /\ row_idx < Len(renamed.rows) /\ ModelFileMissing(row_idx + 1))
            => (pc' = "aborted" /\ error' = "FileNotFoundError"
                /\ manifest' = PriorManifest)]_vars

\* C1 witness: a run aborted at a record whose model file is missing, with an
\* earlier record already accumulated in output.
C1_Witness ==
    /\ pc = "aborted" /\ error = "FileNotFoundError"
    /\ row_idx < Len(renamed.rows)
    /\ ModelFileMissing(row_idx + 1)
    /\ Len(output) >= 1
    /\ manifest = PriorManifest

\* C2: a record whose opset cell holds non-numeric text is dropped with the
\* "malformed opset" diagnostic and no entry; the parse failure never ends
\* the run; a run that completes has written the manifest, with an entry for
\* every record that has a numeric opset and a non-empty model cell.
C2_BadOpsetDropped ==
    /\ \A k \in 1..row_idx :
          BadOpset(k) => ~Emitted(k) /\ Logged("malformed opset", k)
    /\ pc = "aborted" => error # "ValueError"
    /\ pc = "done" =>
          /\ manifest = [state |-> "written", entries |-> output]
          /\ \A k \in RowRange : (~BadOpset(k) /\ ~EmptyModel(k)) => Emitted(k)

\* C2 witness: a completed run that dropped a record for its opset and
\* emitted another.
C2_Witness ==
    /\ pc = "done"
    /\ \E k \in RowRange : BadOpset(k)
    /\ \E k \in RowRange : Emitted(k)

Scenario1 ==
    /\ root = RootOf(<<ClassLink(H_foo)>>)
    /\ docs_read = << <<Table(Std4, <<GoodRow4>>)>> >>

\* C3: in scenario 1 (one model class linking to models/foo, whose README has
\* one table with the columns Model, Download, Opset version, ONNX version and
\* one row with a readable model file) the run does not abort, and on
\* completion the manifest holds exactly one entry, named by the Model cell,
\* with model_path under models/foo/ and tags ["foo"].
C3_Scenario1 ==
    Scenario1 =>
        /\ pc # "aborted"
        /\ pc = "done" =>
              /\ Len(manifest.entries) = 1
              /\ manifest.entries[1].model = NavStr(<<"M">>)
              /\ StartsWith(manifest.entries[1].model_path, H_foo \o <<"/">>)
              /\ manifest.entries[1].metadata[S_tags] = << <<"f", "o", "o">> >>

\* C4: a record without sample test data (the column is in no table, or not
\* in the table of the record, or the cell holds no link) never ends the run
\* at that record other than by its unreadable model file; once handled, the
\* "no model_with_data" diagnostic is logged, and an entry emitted for the
\* record carries none of model_with_data_path, _sha, _bytes.
C4_MissingDataNonFatal ==
    \A k \in RowRange :
        DataAbsent(k) =>
            /\ (pc = "aborted" /\ row_idx + 1 = k) => error = "FileNotFoundError"
            /\ k <= row_idx =>
                  /\ Logged("no model_with_data", k)
                  /\ \A j \in 1..Len(out_rows) :
                        out_rows[j] = k =>
                            DOMAIN output[j].metadata \cap
                                { S_model_with_data_path,
                                  <<"m", "o", "d", "e", "l", "_", "w", "i", "t", "h", "_", "d", "a", "t", "a", "_", "s", "h", "a">>,
                                  <<"m", "o", "d", "e", "l", "_", "w", "i", "t", "h", "_", "d", "a", "t", "a", "_", "b", "y", "t", "e", "s">> }
                              = {}

\* C5: an entry emitted for a record whose model file the inference engine
\* refuses with NotImplemented has no io_ports key in its metadata, and any
\* other entry has io_ports with the inputs and outputs of the session; a
\* refused record with a numeric opset and a non-empty model cell is emitted.
C5_IoPorts ==
    /\ Len(out_rows) = Len(output)
    /\ \A j \in 1..Len(output) :
          IF PointerModel(out_rows[j])
          THEN S_io_ports \notin DOMAIN output[j].metadata
          ELSE /\ S_io_ports \in DOMAIN output[j].metadata
               /\ DOMAIN output[j].metadata[S_io_ports] = {"inputs", "outputs"}
               /\ output[j].metadata[S_io_ports] =
                     InferenceSession(output[j].model_path).val
    /\ \A k \in 1..row_idx :
          (PointerModel(k) /\ ~BadOpset(k) /\ ~EmptyModel(k)) => Emitted(k)

\* C5 witness: a completed run with an entry for a refused model file and an
\* entry for a loaded one.
C5_Witness ==
    /\ pc = "done"
    /\ \E j \in 1..Len(output) : PointerModel(out_rows[j])
    /\ \E j \in 1..Len(output) : ~PointerModel(out_rows[j])

\* The "Model Class" cells of the top-level table of the discovery study
RootCells == [r \in 1..(Len(root[1]) - 1) |-> root[1][r + 1].contents[1]]
RootHasModelClass == TextOf(root[1][1].contents[1]) = S_ModelClass
LinkedHrefs == {h \in Hrefs : \E r \in 1..Len(RootCells) : RootCells[r] = ClassLink(h)}
UnlinkedRows == {r \in 1..Len(RootCells) : \A h \in Hrefs : RootCells[r] # ClassLink(h)}

\* C6: with every "Model Class" cell non-empty, the discovery never ends the
\* run: each row without a resolvable link (a link element without href
\* included) gets one diagnostic, the other rows are still handled, and the
\* result is the sorted, duplicate-free list of the linked READMEs, whatever
\* the order of the rows.
C6_DiscoveryTolerant ==
    (pc # "discover" /\ RootHasModelClass
        /\ \A r \in 1..Len(RootCells) : RootCells[r].contents # <<>>)
    => /\ pc # "aborted"
       /\ markdown_files =
             SortedList({PathJoin(PathJoin(S_DotDot, h), S_README) : h \in LinkedHrefs})
       /\ Len(log) = Cardinality(UnlinkedRows)

\* C7: normalising an already normalised header sequence leaves it unchanged.
C7_Idempotent == applied >= 2 => cols = prev_cols

Elements(seq) == {seq[i] : i \in 1..Len(seq)}

\* The tables read whose renamed and normalised columns lack a field
LackingTables(tables) == {tb \in tables : LacksField(tb.frame.columns)}

\* Every table of lacking is logged and is not among the tables kept, and
\* every record is a row of a table read that is not in lacking, with the
\* file of that table
SkippedAndLogged(tables, lacking) ==
    /\ \A tb \in lacking :
          /\ \E i \in 1..Len(log) :
                log[i] = [msg |-> "Unrecognized table columns", file |-> tb.file]
          /\ \A i \in 1..Len(all_tables) :
                all_tables[i].rows # [r \in 1..Len(tb.frame.rows) |->
                                         Append(tb.frame.rows[r], PyStr(tb.file))]
    /\ \A k \in RowRange :
          \E tb \in tables \ lacking :
              /\ tb.file = RowFile(k)
              /\ \E r \in 1..Len(tb.frame.rows) :
                    \A c \in 1..Len(tb.frame.columns) :
                        InList(tb.frame.rows[r][c], renamed.rows[k])

SkipsHold(tables) == SkippedAndLogged(tables, LackingTables(tables))

\* C8 as stated: a table lacking a required field is skipped and that never
\* aborts the run, whatever the number of tables that survive (none included).
C8_SkipNeverAborts == SomeTableLacksField => error # ConcatError

\* C8 amended: a table whose renamed and normalised columns lack one of the
\* four top-level fields is logged and skipped and contributes no row; the
\* run is aborted by the concatenation only when no table at all survives.
C8_SkipAbortsOnlyWhenNoneSurvive ==
    /\ SkipsHold(Elements(ReadTables))
    /\ error = ConcatError => all_tables = <<>>
    /\ pc \in {"enrich", "done"} => all_tables # <<>>

\* C8 witness: a completed run that skipped a table and emitted an entry
\* from another.
C8_Witness ==
    /\ pc = "done"
    /\ SomeTableLacksField
    /\ Len(output) >= 1

\* The rows of the table given to parse_html, by what parse_html sees in them
IsDataRow(i) == \E c \in 1..Len(html[i].contents) : html[i].contents[c].name = "td"
IsHeaderRow(i) ==
    /\ ~IsDataRow(i)
    /\ \E c \in 1..Len(html[i].contents) : html[i].contents[c].name = "th"
DataRows == {i \in 1..Len(html) : IsDataRow(i)}
HeaderRows == {i \in 1..Len(html) : IsHeaderRow(i)}
FirstHeaderRow == CHOOSE i \in HeaderRows : \A j \in HeaderRows : i <= j
HeaderTexts(i) ==
    [c \in 1..Len(html[i].contents) |-> Strip(TextOf(html[i].contents[c]))]
EmptyMatrixError == "ValueError: data matrix is empty"

\* C9 as stated: a row of header cells becomes the header row only if it is
\* the first such row and no data row precedes it; the table is rejected with
\* "data matrix is empty" when no header row precedes the data rows or there
\* is no data row; otherwise an accepted table has as many columns as header
\* cells and as many rows as rows with data cells.
C9_HeaderOnlyBeforeData ==
    pc = "parsed" =>
        /\ IF HeaderRows # {} /\ \A d \in DataRows : FirstHeaderRow < d
           THEN headers = HeaderTexts(FirstHeaderRow)
           ELSE headers = <<>>
        /\ (DataRows = {} \/ HeaderRows = {} \/ \E d \in DataRows : d < FirstHeaderRow)
              => parsed.exc = EmptyMatrixError
        /\ parsed.exc = "none" =>
              /\ Len(parsed.val.columns) = Len(html[FirstHeaderRow].contents)
              /\ Len(parsed.val.rows) = Cardinality(DataRows)

\* C9 amended: the first row made of header cells only becomes the header row,
\* whether or not data rows precede it; the table is rejected with "data
\* matrix is empty" exactly when no row has a data cell; a table with a
\* header row and data rows of the width of the header is accepted; an
\* accepted table has as many columns as header cells and as many rows as
\* rows with data cells.
C9_FirstHeaderRowWins ==
    pc = "parsed" =>
        /\ IF HeaderRows # {}
           THEN headers = HeaderTexts(FirstHeaderRow)
           ELSE headers = <<>>
        /\ parsed.exc = EmptyMatrixError <=> DataRows = {}
        /\ (/\ HeaderRows # {} /\ DataRows # {}
            /\ \A d \in DataRows :
                  Len(html[d].contents) = Len(html[FirstHeaderRow].contents))
              => parsed.exc = "none"
        /\ parsed.exc = "none" =>
              /\ HeaderRows # {}
              /\ parsed.val.columns = HeaderTexts(FirstHeaderRow)
              /\ Len(parsed.val.rows) = Cardinality(DataRows)

\* C9 witness: an accepted table whose header row comes after a data row and
\* before another row of header cells.
C9_Witness ==
    /\ pc = "parsed"
    /\ parsed.exc = "none"
    /\ Cardinality(HeaderRows) >= 2
    /\ \E d \in DataRows : d < FirstHeaderRow

\* The tables the scan keeps: those with the four raw columns of line 64
KeptTables == SelectSeq(ReadTables, LAMBDA t : HasRequiredColumns(RenameOpset(t.frame.columns)))

RowKey(file, columns, row) ==
    <<file, row[IndexOf(S_Model, columns)], row[IndexOf(S_Download, columns)],
      row[IndexOf(IF InList(S_OpsetVersion, columns) THEN S_OpsetVersion
                  ELSE S_OpsetVersionCap, columns)]>>

RECURSIVE KeysOf(_)
KeysOf(tables) ==
    IF tables = <<>> THEN <<>>
    ELSE [r \in 1..Len(Head(tables).frame.rows) |->
             RowKey(Head(tables).file, Head(tables).frame.columns,
                    Head(tables).frame.rows[r])]
         \o KeysOf(Tail(tables))

\* The records in the order of the documents read and of the rows in them
RecordsInReadingOrder == KeysOf(KeptTables)

\* The records in the order the loop visits them
RecordsInVisitingOrder ==
    [k \in RowRange |->
        <<RowFile(k), RowCell(k, S_model).val, RowCell(k, S_model_path).val,
          RowCell(k, S_opset_version).val>>]

\* C10: the documents are read in sorted order and the records are visited
\* in document order, then row order; every record handled contributes at
\* most one entry and the entries are in the order of their records; on a
\* run that completes the manifest holds these entries, and a record has no
\* entry exactly when its opset is not a number or its model cell is empty.
C10_OrderPreservingSubsequence ==
    /\ \A i \in 1..Len(markdown_files) : \A j \in 1..Len(markdown_files) :
          i < j => StrLess(markdown_files[i], markdown_files[j])
    /\ pc \in {"enrich", "done"} => RecordsInVisitingOrder = RecordsInReadingOrder
    /\ Len(out_rows) = Len(output)
    /\ \A j \in 1..Len(out_rows) :
          /\ out_rows[j] \in 1..row_idx
          /\ j < Len(out_rows) => out_rows[j] < out_rows[j + 1]
          /\ output[j].model = RowCell(out_rows[j], S_model).val.contents[1]
          /\ output[j].onnx_version = RowCell(out_rows[j], S_onnx_version).val.contents[1]
          /\ Basename(output[j].model_path) = Basename(LinkTarget(ModelHref(out_rows[j])))
    /\ pc = "done" =>
          /\ manifest.entries = output
          /\ \A k \in RowRange : ~Emitted(k) <=> (BadOpset(k) \/ EmptyModel(k))

\* C10 witness: a completed run over two documents with two entries or more
\* and a record without entry.
C10_Witness ==
    /\ pc = "done"
    /\ Len(output) >= 2
    /\ Len(docs_read) >= 2
    /\ \E k \in RowRange : ~Emitted(k)

=============================================================================
